---- MODULE Spec2Model ----
(***************************************************************************)
(* The OptiCSS Optimizer (Optimizer.ts): construction from options, the    *)
(* source list, and the promise pipeline of optimize():                    *)
(*   parseCss -> single-file passes (per file) -> Promise.all ->           *)
(*   cross-file passes -> serialization and concatenation.                 *)
(* JavaScript runs one callback at a time; the callbacks of the pipeline   *)
(* are modelled step by step (one pass invocation per step) and the        *)
(* run-to-completion rule is the guard OtherRunning.                       *)
(***************************************************************************)
EXTENDS Integers, Sequences, FiniteSets, TLC

\* Bounds of the model.
MaxSources == 2
MaxRuns == 2

----------------------------------------------------------------------------
\* Options and construction

\* The registry `optimizations`, in key order, with the capability shapes of
\* the pass class registered under each key.
optimizations ==
  << [key |-> "optS", single |-> TRUE,  multi |-> FALSE],
     [key |-> "optB", single |-> TRUE,  multi |-> TRUE ],
     [key |-> "optM", single |-> FALSE, multi |-> TRUE ],
     [key |-> "optN", single |-> FALSE, multi |-> FALSE] >>

RegistryKeys == [i \in 1..Len(optimizations) |-> optimizations[i].key]

RegistryKeySet == {optimizations[i].key : i \in 1..Len(optimizations)}

\* Keys an options object may carry: the recognized ones and one that no
\* part of the program knows.
OptionKeys == <<"enabled">> \o RegistryKeys \o <<"bogus">>

OptionKeySet == {OptionKeys[i] : i \in 1..Len(OptionKeys)}

\* Values of an option as supplied: left out, a boolean, or a truthy value
\* that is not a boolean.
OptionValues == {"absent", "true", "false", "junk"}

DEFAULT_OPTIONS ==
  [k \in OptionKeySet |-> IF k = "bogus" THEN "absent" ELSE "true"]

\* JavaScript truthiness of an option value (undefined and false are falsy).
Truthy(v) == v \in {"true", "junk"}

\* Object.assign({}, DEFAULT_OPTIONS, options)
MergeOptions(supplied) ==
  [k \in OptionKeySet |->
     IF supplied[k] = "absent" THEN DEFAULT_OPTIONS[k] ELSE supplied[k]]

optimizesSingleFiles(key) ==
  \E i \in 1..Len(optimizations) :
     optimizations[i].key = key /\ optimizations[i].single

\* A capability probe chained to the first with `else`.
AllFilesUnlessSingle(key) ==
  \E i \in 1..Len(optimizations) :
     /\ optimizations[i].key = key
     /\ optimizations[i].multi /\ ~optimizations[i].single

optimizesAllFiles(key) ==
  \E i \in 1..Len(optimizations) :
     optimizations[i].key = key /\ optimizations[i].multi

\* The constructor returns before instantiating anything when the merged
\* `enabled` option is falsy.
NeverReturnEarly(opts) == FALSE

EarlyReturn(opts) == ~Truthy(opts["enabled"])

\* The keys the constructor iterates: Object.keys(optimizations).
EveryOptionKey(opts) == OptionKeys

IteratedKeys(opts) == RegistryKeys

EmptyBuild == [threw |-> FALSE, count |-> 0, single |-> <<>>, multi |-> <<>>]

\* The forEach of the constructor: for each iterated key whose option is
\* truthy, one `new Optimization(options)`, pushed to the list of each
\* capability it has.  `new` of a key that is not in the registry throws.
RECURSIVE Instantiate(_, _, _)
Instantiate(opts, keys, acc) ==
  IF keys = <<>> \/ acc.threw THEN acc
  ELSE LET opt == Head(keys) IN
       IF ~Truthy(opts[opt]) THEN Instantiate(opts, Tail(keys), acc)
       ELSE IF opt \notin RegistryKeySet
            THEN [acc EXCEPT !.threw = TRUE]
            ELSE LET optimization == [id |-> acc.count + 1, key |-> opt] IN
                 Instantiate(opts, Tail(keys),
                    [threw  |-> FALSE,
                     count  |-> acc.count + 1,
                     single |-> IF optimizesSingleFiles(opt)
                                THEN Append(acc.single, optimization)
                                ELSE acc.single,
                     multi  |-> IF optimizesAllFiles(opt)
                                THEN Append(acc.multi, optimization)
                                ELSE acc.multi])

Constructor(supplied) ==
  LET opts == MergeOptions(supplied) IN
  IF EarlyReturn(opts) THEN EmptyBuild
  ELSE Instantiate(opts, IteratedKeys(opts), EmptyBuild)

----------------------------------------------------------------------------
\* State

VARIABLES
  options,                  \* this.options, after the merge over the defaults
  constructed,              \* "ok", or "threw" when the constructor raised
  instances,                \* number of pass objects ever constructed
  singleFileOptimizations,  \* this.singleFileOptimizations
  multiFileOptimizations,   \* this.multiFileOptimizations
  sources,                  \* this.sources: the CssFile objects of the caller
  promises,    \* per run: `promises`, one record per source of the run
  all,         \* per run: the promise Promise.all(promises)
  styleMapping,\* per run: the StyleMapping object made by optimize()
  cache,       \* per run: the SelectorCache object made by optimize()
  rewrite,     \* per StyleMapping object: its rewrite relation
  cross,       \* per run: the callback that runs the cross-file passes
  settle,      \* per run: the promise optimize() returned to the caller
  log,         \* per run: the pass invocations made so far, in order
  failures,    \* per run: the errors raised so far, in order
  order        \* per run: the files whose promise fulfilled, in that order

vars == << options, constructed, instances, singleFileOptimizations,
           multiFileOptimizations, sources, promises, all, styleMapping,
           cache, rewrite, cross, settle, log, failures, order >>

optimizerVars == << options, constructed, instances,
                    singleFileOptimizations, multiFileOptimizations >>

\* The option objects a caller may pass to the constructor: every choice of
\* booleans for the recognized keys, and the empty object with one key set
\* to a value that is not a boolean or with the unknown key added.
OptionInputs ==
  { o \in [OptionKeySet -> {"true", "false", "absent"}] :
      \A k \in OptionKeySet : o[k] = "absent" <=> k = "bogus" }
  \cup { [[k \in OptionKeySet |-> "absent"] EXCEPT ![key] = v] :
           key \in OptionKeySet, v \in {"absent", "junk", "true"} }

\* The CssFile objects a caller may add: raw text that parses, raw text
\* that does not, and a file whose content is already parsed.
SourceInputs ==
  { [content |-> "text",   wellFormed |-> TRUE],
    [content |-> "text",   wellFormed |-> FALSE],
    [content |-> "parsed", wellFormed |-> TRUE] }

\* Identifiers a pass may ask to rename, and the replacements it may propose.
Idents == {"foo"}
Replacements == {"a", "b"}

NoFile == [own |-> "none", run |-> 0, src |-> 0]
NoError == [kind |-> "none", pass |-> 0, src |-> 0]
NoRequest == [ident |-> "none", repl |-> "none", ok |-> FALSE]
EmptyMapping == [x \in Idents |-> "none"]

\* What one pass invocation does: return after editing the rule tree, throw,
\* or ask the style mapping for a rename and then edit the rule tree.
Behaviours ==
  { [act |-> "plain", ident |-> "none", repl |-> "none"],
    [act |-> "throw", ident |-> "none", repl |-> "none"] }
  \cup { [act |-> "rename", ident |-> x, repl |-> y] :
           x \in Idents, y \in Replacements }

Runs == 1..Len(promises)
FilesOf(r) == 1..Len(promises[r])

Init ==
  \E supplied \in OptionInputs :
    LET built == Constructor(supplied) IN
    /\ options = MergeOptions(supplied)
    /\ constructed = IF built.threw THEN "threw" ELSE "ok"
    /\ instances = built.count
    /\ singleFileOptimizations = built.single
    /\ multiFileOptimizations = built.multi
    /\ sources = <<>>
    /\ promises = <<>>
    /\ all = <<>>
    /\ styleMapping = <<>>
    /\ cache = <<>>
    /\ rewrite = [m \in 1..MaxRuns |-> EmptyMapping]
    /\ cross = <<>>
    /\ settle = <<>>
    /\ log = <<>>
    /\ failures = <<>>
    /\ order = <<>>

----------------------------------------------------------------------------
\* Promises and the event loop

\* A callback of the pipeline is in the middle of its execution: the
\* callback of file i of run r (i > 0) or the cross-file callback of run r
\* (i = 0).
Running(r, i) ==
  IF i = 0 THEN cross[r].st = "running" ELSE promises[r][i].st = "running"

\* An event loop that lets callbacks interleave.
NeverBlocked(r, i) == FALSE

\* A forEach that awaits each pass: a callback yields to the event loop
\* between two pass invocations, and only a pass invocation is atomic.
YieldsBetweenPasses(r, i) ==
  \E r2 \in Runs : \E i2 \in {0} \cup FilesOf(r2) :
     /\ << r2, i2 >> # << r, i >>
     /\ Running(r2, i2)
     /\ IF i2 = 0 THEN cross[r2].req # NoRequest
        ELSE promises[r2][i2].req # NoRequest

\* Every callback runs to completion: nothing else starts or continues
\* while a callback other than (r, i) is in the middle of its execution.
OtherRunning(r, i) ==
  \E r2 \in Runs : \E i2 \in {0} \cup FilesOf(r2) :
     << r2, i2 >> # << r, i >> /\ Running(r2, i2)

\* No callback is executing: the caller's own code may run.
Idle == ~OtherRunning(0, 0)

\* Variants of Promise.all: one that fulfils as soon as one element has
\* fulfilled, one that waits for every element to settle and ignores
\* rejections, and one whose rejection value is the latest rejection.
PromiseAny(a, ps, reason) ==
  IF a.st # "pending" THEN a
  ELSE IF \E i \in DOMAIN ps : ps[i].st = "rejected"
       THEN [st |-> "rejected", reason |-> reason]
  ELSE IF ps = <<>> \/ \E i \in DOMAIN ps : ps[i].st = "fulfilled"
       THEN [st |-> "fulfilled", reason |-> NoError]
  ELSE a

PromiseAllSettled(a, ps, reason) ==
  IF a.st # "pending" THEN a
  ELSE IF \A i \in DOMAIN ps : ps[i].st \in {"fulfilled", "rejected"}
       THEN [st |-> "fulfilled", reason |-> NoError]
  ELSE a

PromiseAllLatest(a, ps, reason) ==
  IF a.st = "fulfilled" THEN a
  ELSE IF reason # NoError
       THEN [st |-> "rejected", reason |-> reason]
  ELSE IF a.st = "pending" /\ \A i \in DOMAIN ps : ps[i].st = "fulfilled"
       THEN [st |-> "fulfilled", reason |-> NoError]
  ELSE a

\* A Promise.all that only counts fulfilments and never rejects.
PromiseAllNeverRejects(a, ps, reason) ==
  IF a.st # "pending" THEN a
  ELSE IF \A i \in DOMAIN ps : ps[i].st = "fulfilled"
       THEN [st |-> "fulfilled", reason |-> NoError]
  ELSE a

\* Promise.all over the promises ps: its state a after one of ps settled
\* (reason is the rejection value when that one rejected).  It rejects with
\* the first rejection, fulfils when every element has fulfilled, and never
\* changes once settled.
PromiseAll(a, ps, reason) ==
  IF a.st # "pending" THEN a
  ELSE IF \E i \in DOMAIN ps : ps[i].st = "rejected"
       THEN [st |-> "rejected", reason |-> reason]
  ELSE IF \A i \in DOMAIN ps : ps[i].st = "fulfilled"
       THEN [st |-> "fulfilled", reason |-> NoError]
  ELSE a

\* The files in the order in which their promises fulfilled.
ValuesAsCompleted(r) ==
  [j \in 1..Len(order[r]) |-> promises[r][order[r][j]].file]

\* The array Promise.all fulfils with: the files, in the order of `promises`.
PromiseAllValues(r) == [i \in FilesOf(r) |-> promises[r][i].file]

\* A style mapping that is made once and kept by the Optimizer.
KeptStyleMapping(r) == 1

\* new StyleMapping() and new SelectorCache() in the r-th call of optimize():
\* an object no earlier call made.
NewStyleMapping(r) == r

NewSelectorCache(r) == r

\* A parseCss that fills in the object it was given.
ParsedInPlace(r, i, file) == [own |-> "caller", run |-> 0, src |-> i]

\* What parseCss resolves with: for raw text a new object holding the parse
\* result, otherwise the CssFile object it was given.
ParsedCssFileOf(r, i, file) ==
  IF file.content = "text"
  THEN [own |-> "pipeline", run |-> r, src |-> i]
  ELSE [own |-> "caller", run |-> 0, src |-> i]

\* A pass object made anew for the r-th call of optimize().
FreshSinglePass(r, k) ==
  [id |-> r * Len(optimizations) + singleFileOptimizations[k].id,
   key |-> singleFileOptimizations[k].key]

\* Lists walked from the last element to the first.
LastSinglePassFirst(r, k) ==
  singleFileOptimizations[Len(singleFileOptimizations) + 1 - k]

LastMultiPassFirst(r, k) ==
  multiFileOptimizations[Len(multiFileOptimizations) + 1 - k]

\* The pass objects the callbacks iterate over.
SinglePass(r, k) == singleFileOptimizations[k]

MultiPass(r, k) == multiFileOptimizations[k]

\* StyleMapping.conflicts(ident, proposed): the identifier already has a
\* different replacement.
Conflicts(m, ident, proposed) ==
  rewrite[m][ident] \notin {"none", proposed}

Event(op, pass, i, files, r) ==
  [op |-> op, pass |-> pass.id, src |-> i, files |-> files,
   styleMapping |-> styleMapping[r], cache |-> cache[r]]

----------------------------------------------------------------------------
\* Operations of the caller

\* addSource(file)
\* An optimize() that reads this.sources when a parse is due, not at the
\* call: a source added later joins the runs that have not settled.
AddSourceToRunsInFlight(file) ==
  /\ constructed = "ok"
  /\ Idle
  /\ Len(sources) < MaxSources
  /\ sources' = Append(sources, file)
  /\ promises' = [r \in Runs |->
                    IF settle[r].st = "pending" /\ cross[r].st = "idle"
                    THEN Append(promises[r],
                                [st |-> "pending", k |-> 0, file |-> NoFile,
                                 req |-> NoRequest])
                    ELSE promises[r]]
  /\ UNCHANGED << optimizerVars, all, styleMapping, cache, rewrite,
                  cross, settle, log, failures, order >>

AddSource(file) ==
  /\ constructed = "ok"
  /\ Idle
  /\ Len(sources) < MaxSources
  /\ sources' = Append(sources, file)
  /\ UNCHANGED << optimizerVars, promises, all, styleMapping, cache, rewrite,
                  cross, settle, log, failures, order >>

\* optimize(outputFilename), up to the return of the promise: one parseCss
\* per source present at the call.
Optimize ==
  /\ constructed = "ok"
  /\ Idle
  /\ Len(promises) < MaxRuns
  /\ LET r == Len(promises) + 1
         ps == [i \in 1..Len(sources) |->
                  [st |-> "pending", k |-> 0, file |-> NoFile,
                   req |-> NoRequest]]
     IN /\ promises' = Append(promises, ps)
        /\ all' = Append(all,
                    PromiseAll([st |-> "pending", reason |-> NoError], ps,
                               NoError))
        /\ styleMapping' = Append(styleMapping, NewStyleMapping(r))
        /\ cache' = Append(cache, NewSelectorCache(r))
        /\ cross' = Append(cross,
                    [st |-> "idle", k |-> 0, req |-> NoRequest,
                     error |-> NoError])
        /\ settle' = Append(settle,
                    [st |-> "pending", error |-> NoError, content |-> <<>>,
                     styleMapping |-> 0])
        /\ log' = Append(log, <<>>)
        /\ failures' = Append(failures, <<>>)
        /\ order' = Append(order, <<>>)
  /\ UNCHANGED << optimizerVars, sources, rewrite >>

----------------------------------------------------------------------------
\* Phase 1: parseCss(source).then(file => ...), one callback per file

\* The promise of file i of run r rejects with err.
\* A forEach that catches the error of a pass and calls the pass again.
FileCatchesAndRetries(r, i, err) ==
  /\ promises' = [promises EXCEPT
                    ![r][i].st = IF @ = "running" THEN "running"
                                 ELSE "rejected",
                    ![r][i].req = NoRequest]
  /\ failures' = [failures EXCEPT ![r] = Append(@, err)]
  /\ all' = [all EXCEPT ![r] = PromiseAll(@, promises'[r], err)]

FileRejects(r, i, err) ==
  /\ promises' = [promises EXCEPT ![r][i].st = "rejected",
                                  ![r][i].req = NoRequest]
  /\ failures' = [failures EXCEPT ![r] = Append(@, err)]
  /\ all' = [all EXCEPT ![r] = PromiseAll(@, promises'[r], err)]

\* The parser rejects the text of source i: the promise of the file rejects
\* and its callback never runs.
ParseFails(r, i) ==
  /\ promises[r][i].st = "pending"
  /\ ~OtherRunning(r, i)
  /\ sources[i].content = "text" /\ ~sources[i].wellFormed
  /\ FileRejects(r, i, [kind |-> "parse", pass |-> 0, src |-> i])
  /\ UNCHANGED << optimizerVars, sources, styleMapping, cache, rewrite,
                  cross, settle, log, order >>

\* parseCss resolves and the callback of the file starts with its result.
ParseResolves(r, i) ==
  /\ promises[r][i].st = "pending"
  /\ ~OtherRunning(r, i)
  /\ sources[i].wellFormed
  /\ promises' = [promises EXCEPT
                    ![r][i].st = "running",
                    ![r][i].file = ParsedCssFileOf(r, i, sources[i])]
  /\ UNCHANGED << optimizerVars, sources, all, styleMapping, cache, rewrite,
                  cross, settle, log, failures, order >>

\* optimization.optimizeSingleFile(styleMapping, file, analyses, cache) for
\* the next pass of the forEach, with behaviour b.  A rename is first
\* checked against the style mapping; SingleFileCommit assigns it.
SingleFileCall(r, i, b) ==
  LET p == promises[r][i]
      pass == SinglePass(r, p.k + 1)
  IN
  /\ p.st = "running" /\ p.req = NoRequest
  /\ ~OtherRunning(r, i)
  /\ p.k < Len(singleFileOptimizations)
  /\ log' = [log EXCEPT ![r] =
               Append(@, Event("single", pass, i, << p.file >>, r))]
  /\ CASE b.act = "plain" ->
            /\ promises' = [promises EXCEPT ![r][i].k = p.k + 1]
            /\ UNCHANGED << all, failures >>
       [] b.act = "throw" ->
            FileRejects(r, i, [kind |-> "pass", pass |-> pass.id, src |-> i])
       [] b.act = "rename" ->
            /\ promises' = [promises EXCEPT ![r][i].req =
                 [ident |-> b.ident, repl |-> b.repl,
                  ok |-> ~Conflicts(styleMapping[r], b.ident, b.repl)]]
            /\ UNCHANGED << all, failures >>
  /\ UNCHANGED << optimizerVars, sources, styleMapping, cache, rewrite,
                  cross, settle, order >>

\* The second half of a rename: the pass assigns the replacement it checked,
\* or raises the conflict the check found.
SingleFileCommit(r, i) ==
  LET p == promises[r][i]
      pass == SinglePass(r, p.k + 1)
  IN
  /\ p.st = "running" /\ p.req # NoRequest
  /\ ~OtherRunning(r, i)
  /\ IF p.req.ok
     THEN /\ rewrite' = [rewrite EXCEPT
                           ![styleMapping[r]][p.req.ident] = p.req.repl]
          /\ promises' = [promises EXCEPT ![r][i].k = p.k + 1,
                                          ![r][i].req = NoRequest]
          /\ UNCHANGED << all, failures >>
     ELSE /\ FileRejects(r, i,
                [kind |-> "conflict", pass |-> pass.id, src |-> i])
          /\ UNCHANGED rewrite
  /\ UNCHANGED << optimizerVars, sources, styleMapping, cache, cross,
                  settle, log, order >>

\* `return file`: the forEach is over and the promise of the file fulfils.
SingleFileReturn(r, i) ==
  LET p == promises[r][i] IN
  /\ p.st = "running" /\ p.req = NoRequest
  /\ ~OtherRunning(r, i)
  /\ p.k = Len(singleFileOptimizations)
  /\ promises' = [promises EXCEPT ![r][i].st = "fulfilled"]
  /\ order' = [order EXCEPT ![r] = Append(@, i)]
  /\ all' = [all EXCEPT ![r] = PromiseAll(@, promises'[r], NoError)]
  /\ UNCHANGED << optimizerVars, sources, styleMapping, cache, rewrite,
                  cross, settle, log, failures >>

----------------------------------------------------------------------------
\* Phase 2: Promise.all(promises).then(files => optimizeAllFiles(...))

\* The callback starts once Promise.all has fulfilled.
AllFilesStart(r) ==
  /\ all[r].st = "fulfilled"
  /\ cross[r].st = "idle"
  /\ ~OtherRunning(r, 0)
  /\ cross' = [cross EXCEPT ![r].st = "running"]
  /\ UNCHANGED << optimizerVars, sources, promises, all, styleMapping, cache,
                  rewrite, settle, log, failures, order >>

\* The callback of the cross-file phase throws err.
AllFilesThrows(r, err) ==
  /\ cross' = [cross EXCEPT ![r].st = "failed", ![r].req = NoRequest,
                            ![r].error = err]
  /\ failures' = [failures EXCEPT ![r] = Append(@, err)]

\* optimization.optimizeAllFiles(styleMapping, files, analyses, cache) for
\* the next pass of the forEach, with behaviour b.
AllFilesCall(r, b) ==
  LET c == cross[r]
      pass == MultiPass(r, c.k + 1)
  IN
  /\ c.st = "running" /\ c.req = NoRequest
  /\ ~OtherRunning(r, 0)
  /\ c.k < Len(multiFileOptimizations)
  /\ log' = [log EXCEPT ![r] =
               Append(@, Event("multi", pass, 0, PromiseAllValues(r), r))]
  /\ CASE b.act = "plain" ->
            /\ cross' = [cross EXCEPT ![r].k = c.k + 1]
            /\ UNCHANGED failures
       [] b.act = "throw" ->
            AllFilesThrows(r, [kind |-> "pass", pass |-> pass.id, src |-> 0])
       [] b.act = "rename" ->
            /\ cross' = [cross EXCEPT ![r].req =
                 [ident |-> b.ident, repl |-> b.repl,
                  ok |-> ~Conflicts(styleMapping[r], b.ident, b.repl)]]
            /\ UNCHANGED failures
  /\ UNCHANGED << optimizerVars, sources, promises, all, styleMapping, cache,
                  rewrite, settle, order >>

AllFilesCommit(r) ==
  LET c == cross[r]
      pass == MultiPass(r, c.k + 1)
  IN
  /\ c.st = "running" /\ c.req # NoRequest
  /\ ~OtherRunning(r, 0)
  /\ IF c.req.ok
     THEN /\ rewrite' = [rewrite EXCEPT
                           ![styleMapping[r]][c.req.ident] = c.req.repl]
          /\ cross' = [cross EXCEPT ![r].k = c.k + 1, ![r].req = NoRequest]
          /\ UNCHANGED failures
     ELSE /\ AllFilesThrows(r,
                [kind |-> "conflict", pass |-> pass.id, src |-> 0])
          /\ UNCHANGED rewrite
  /\ UNCHANGED << optimizerVars, sources, promises, all, styleMapping, cache,
                  settle, log, order >>

\* `return Promise.resolve(files)`
AllFilesReturn(r) ==
  LET c == cross[r] IN
  /\ c.st = "running" /\ c.req = NoRequest
  /\ ~OtherRunning(r, 0)
  /\ c.k = Len(multiFileOptimizations)
  /\ cross' = [cross EXCEPT ![r].st = "done"]
  /\ UNCHANGED << optimizerVars, sources, promises, all, styleMapping, cache,
                  rewrite, settle, log, failures, order >>

----------------------------------------------------------------------------
\* Assembly and the promise returned to the caller

\* The last callback: each file is serialized and added to the Concat in the
\* order of `files`; the promise of optimize() resolves with the result.
Assemble(r) ==
  /\ cross[r].st = "done"
  /\ settle[r].st = "pending"
  /\ Idle
  /\ LET files == PromiseAllValues(r) IN
     settle' = [settle EXCEPT ![r] =
                  [st |-> "resolved", error |-> NoError,
                   content |-> [j \in DOMAIN files |-> files[j]],
                   styleMapping |-> styleMapping[r]]]
  /\ UNCHANGED << optimizerVars, sources, promises, all, styleMapping, cache,
                  rewrite, cross, log, failures, order >>

\* A rejection of Promise.all, or a throw of the cross-file callback, skips
\* the remaining callbacks and rejects the promise of optimize().
Reject(r) ==
  /\ settle[r].st = "pending"
  /\ all[r].st = "rejected" \/ cross[r].st = "failed"
  /\ Idle
  /\ settle' = [settle EXCEPT
                  ![r].st = "rejected",
                  ![r].error = IF all[r].st = "rejected" THEN all[r].reason
                               ELSE cross[r].error]
  /\ UNCHANGED << optimizerVars, sources, promises, all, styleMapping, cache,
                  rewrite, cross, log, failures, order >>

----------------------------------------------------------------------------

\* The steps of the pipeline's callbacks, with the pass behaviours B.
Callbacks(B) ==
  \/ \E r \in Runs : \E i \in FilesOf(r) : ParseFails(r, i)
  \/ \E r \in Runs : \E i \in FilesOf(r) : ParseResolves(r, i)
  \/ \E r \in Runs : \E i \in FilesOf(r) : \E b \in B :
        SingleFileCall(r, i, b)
  \/ \E r \in Runs : \E i \in FilesOf(r) : SingleFileReturn(r, i)
  \/ \E r \in Runs : AllFilesStart(r)
  \/ \E r \in Runs : \E b \in B : AllFilesCall(r, b)
  \/ \E r \in Runs : AllFilesReturn(r)
  \/ \E r \in Runs : Assemble(r)
  \/ \E r \in Runs : Reject(r)

\* An Optimizer built from any options, sources added at any time, and one
\* call of optimize().
Next ==
  \/ \E file \in SourceInputs : AddSource(file)
  \/ promises = <<>> /\ Optimize
  \/ Callbacks(Behaviours)
  \/ \E r \in Runs : \E i \in FilesOf(r) : SingleFileCommit(r, i)
  \/ \E r \in Runs : AllFilesCommit(r)

Spec == Init /\ [][Next]_vars

\* An Optimizer built with the default options, on which optimize() is
\* called up to MaxRuns times, a call starting at any time (also while an
\* earlier run is in flight); the passes return or throw.
InitRuns == Init /\ options = DEFAULT_OPTIONS

NextRuns ==
  \/ \E file \in SourceInputs : AddSource(file)
  \/ Optimize
  \/ Callbacks({b \in Behaviours : b.act # "rename"})

SpecRuns == InitRuns /\ [][NextRuns]_vars

\* A step of the pipeline of some run: a parse settling, a pass returning
\* or throwing, a callback starting or returning.
PipelineStep == Callbacks({b \in Behaviours : b.act # "rename"})

\* The overlapping runs of SpecRuns when every parse eventually resolves or
\* rejects, every pass invocation eventually returns or throws, and the
\* event loop eventually runs a callback that is ready.
SpecRunsLive == SpecRuns /\ WF_vars(PipelineStep)

----------------------------------------------------------------------------
\* Properties

Events(r) == {log[r][p] : p \in DOMAIN log[r]}

SingleIds == {singleFileOptimizations[k].id :
                k \in DOMAIN singleFileOptimizations}

\* The events of run r on file i, in order.
EventsOn(r, i) ==
  SelectSeq(log[r], LAMBDA e : e.op = "single" /\ e.src = i)

MultiEvents(r) == SelectSeq(log[r], LAMBDA e : e.op = "multi")

\* C1 -- Phase ordering: whenever a cross-file pass is invoked in a run,
\* every single-file pass has been invoked before it on every file of the
\* run and the callback of every file has returned, whatever the order in
\* which the files completed.
PhaseOrdering ==
  \A r \in Runs : \A p \in DOMAIN log[r] :
     log[r][p].op = "multi" =>
       \A i \in FilesOf(r) :
          /\ promises[r][i].st = "fulfilled"
          /\ promises[r][i].k = Len(singleFileOptimizations)
          /\ log[r][p].files[i] = promises[r][i].file
          /\ \A id \in SingleIds :
                \E q \in 1..(p - 1) :
                   /\ log[r][q].op = "single"
                   /\ log[r][q].src = i
                   /\ log[r][q].pass = id

\* A cross-file pass was invoked in a run of two files that completed in
\* the reverse of the source order, each after two single-file passes.
PhaseOrderingWitness ==
  \E r \in Runs :
     /\ order[r] = << 2, 1 >>
     /\ Len(singleFileOptimizations) = 2
     /\ \E e \in Events(r) : e.op = "multi"

\* C2 -- No-op safety: with `enabled` false no pass object exists, no pass
\* is ever invoked, no file is edited between parse and serialization, and
\* the style mapping of every run stays empty, also in the result.
NoOpSafety ==
  ~Truthy(options["enabled"]) =>
     /\ instances = 0
     /\ singleFileOptimizations = <<>>
     /\ multiFileOptimizations = <<>>
     /\ \A r \in Runs :
          /\ log[r] = <<>>
          /\ rewrite[styleMapping[r]] = EmptyMapping
          /\ settle[r].st = "resolved" =>
               /\ settle[r].styleMapping = styleMapping[r]
               /\ settle[r].content =
                    [j \in FilesOf(r) |-> ParsedCssFileOf(r, j, sources[j])]

\* A disabled optimizer whose options ask for every optimization resolved a
\* run over two files.
NoOpSafetyWitness ==
  /\ options["enabled"] = "false"
  /\ \A k \in RegistryKeySet : options[k] = "true"
  /\ \E r \in Runs : settle[r].st = "resolved" /\ Len(promises[r]) = 2

ParseFailed(r) == \E p \in DOMAIN failures[r] : failures[r][p].kind = "parse"

\* C3 -- A parse failure aborts the run: once a source of a run has failed
\* to parse, Promise.all is rejected, no result is delivered, no cross-file
\* pass is invoked and nothing is serialized.
ParseFailureAborts ==
  \A r \in Runs :
     ParseFailed(r) =>
       /\ all[r].st = "rejected"
       /\ settle[r].st # "resolved"
       /\ settle[r].content = <<>>
       /\ settle[r].styleMapping = 0
       /\ cross[r].st = "idle"
       /\ MultiEvents(r) = <<>>

\* A run was rejected for a parse failure although its other file parsed
\* and went through a single-file pass.
ParseFailureAbortsWitness ==
  \E r \in Runs :
     /\ ParseFailed(r)
     /\ settle[r].st = "rejected"
     /\ \E i \in FilesOf(r) : promises[r][i].st = "fulfilled"
     /\ log[r] # <<>>
     /\ multiFileOptimizations # <<>>

PassFailures(r) ==
  {failures[r][p] : p \in {q \in DOMAIN failures[r] :
                             failures[r][q].kind \in {"pass", "conflict"}}}

\* C4 as stated -- whenever a pass has thrown, no result is returned and a
\* rejected optimize() carries the error of that pass.
EveryPassErrorSurfaces ==
  \A r \in Runs : \A f \in PassFailures(r) :
     /\ settle[r].st # "resolved"
     /\ settle[r].st = "rejected" => settle[r].error = f

\* C4 as amended -- after a failure no result is returned and optimize()
\* rejects with the unchanged error of the first failure of the run; a pass
\* that threw on a file was invoked once on it and is the last pass invoked
\* on that file, no cross-file pass follows a failed file, and a cross-file
\* pass that threw is the last pass invoked in the run.
FirstFailureSurfaces ==
  \A r \in Runs :
     failures[r] # <<>> =>
       /\ settle[r].st # "resolved"
       /\ settle[r].st = "rejected" => settle[r].error = failures[r][1]
       /\ \A f \in PassFailures(r) :
            IF f.src = 0
            THEN /\ log[r][Len(log[r])].pass = f.pass
                 /\ log[r][Len(log[r])].op = "multi"
                 /\ Len(SelectSeq(MultiEvents(r),
                                  LAMBDA e : e.pass = f.pass)) = 1
            ELSE LET on == EventsOn(r, f.src) IN
                 /\ on[Len(on)].pass = f.pass
                 /\ Len(SelectSeq(on, LAMBDA e : e.pass = f.pass)) = 1
                 /\ MultiEvents(r) = <<>>

\* A pass threw on each of two files and the run was rejected with the
\* error of the first.
FirstFailureSurfacesWitness ==
  \E r \in Runs :
     /\ Len(failures[r]) = 2
     /\ failures[r][1].kind = "pass" /\ failures[r][2].kind = "pass"
     /\ settle[r].st = "rejected"

AllEvents == UNION {Events(r) : r \in Runs}

\* C5 -- One style mapping and one selector cache per run: every pass
\* invocation of a run receives the StyleMapping and the SelectorCache that
\* optimize() made for that run, the result carries that StyleMapping, and
\* no two runs have a StyleMapping or a SelectorCache in common.
MappingAndCachePerRun ==
  /\ \A r \in Runs :
       /\ \A e \in Events(r) :
            e.styleMapping = styleMapping[r] /\ e.cache = cache[r]
       /\ settle[r].st = "resolved" =>
            settle[r].styleMapping = styleMapping[r]
  /\ \A r1, r2 \in Runs :
       r1 # r2 =>
         /\ styleMapping[r1] # styleMapping[r2]
         /\ cache[r1] # cache[r2]
         /\ \A e1 \in Events(r1), e2 \in Events(r2) :
              e1.styleMapping # e2.styleMapping /\ e1.cache # e2.cache

\* Two overlapping runs: the second ran its passes on two files and
\* resolved while the first, which had invoked a pass, was still in flight.
MappingAndCachePerRunWitness ==
  /\ Len(promises) = 2
  /\ Len(promises[2]) = 2
  /\ settle[1].st = "pending" /\ log[1] # <<>>
  /\ settle[2].st = "resolved" /\ Len(log[2]) >= 4

\* C6 as stated -- no pass object is invoked in two runs.
FreshPassesPerRun ==
  \A r1, r2 \in Runs :
     r1 # r2 =>
       \A e1 \in Events(r1), e2 \in Events(r2) : e1.pass # e2.pass

EnabledKeys == {k \in RegistryKeySet : Truthy(options[k])}

\* C6 as amended -- the pass objects are those the constructor made, one
\* per enabled optimization and not one per run: every invocation of every
\* run is on one of them, and the k-th single-file pass of a file is the
\* same object in every run.
PassesBuiltOnce ==
  /\ instances = Cardinality(EnabledKeys)
  /\ \A e \in AllEvents : e.pass \in 1..instances
  /\ \A r \in Runs : \A i \in FilesOf(r) :
       LET on == EventsOn(r, i) IN
       \A k \in DOMAIN on : on[k].pass = singleFileOptimizations[k].id

\* The same single-file pass object was invoked in two runs.
PassesBuiltOnceWitness ==
  \E r1, r2 \in Runs :
     /\ r1 # r2
     /\ \E e1 \in Events(r1), e2 \in Events(r2) :
          e1.op = "single" /\ e2.op = "single" /\ e1.pass = e2.pass

\* C7 -- Source order: the files handed to every cross-file pass and the
\* texts of the output are those of the sources of the run, one each, in
\* the order of the source list, whatever the order in which the parses
\* completed.
OutputInSourceOrder ==
  \A r \in Runs :
     LET inOrder == [j \in FilesOf(r) |-> ParsedCssFileOf(r, j, sources[j])]
     IN
     /\ settle[r].st = "resolved" => settle[r].content = inOrder
     /\ \A e \in Events(r) : e.op = "multi" => e.files = inOrder

\* A run resolved, after a cross-file pass, whose second file completed
\* before its first.
OutputInSourceOrderWitness ==
  \E r \in Runs :
     /\ settle[r].st = "resolved"
     /\ order[r] = << 2, 1 >>
     /\ \E e \in Events(r) : e.op = "multi"

\* C8 as stated -- no pass is handed an object of the caller.
PassesNeverGetCallerObjects ==
  \A e \in AllEvents : \A j \in DOMAIN e.files : e.files[j].own # "caller"

\* C8 as amended -- a pass is handed an object of the caller exactly for
\* the sources whose content is already parsed; for a source of raw text it
\* is handed an object that parseCss made in this run.
CallerObjectIffPreParsed ==
  \A r \in Runs : \A e \in Events(r) : \A j \in DOMAIN e.files :
     LET f == e.files[j] IN
     IF sources[f.src].content = "parsed"
     THEN f.own = "caller"
     ELSE f.own = "pipeline" /\ f.run = r

\* A cross-file pass was handed one object of the caller and one object
\* made by parseCss.
CallerObjectIffPreParsedWitness ==
  \E e \in AllEvents :
     /\ e.op = "multi"
     /\ \E j \in DOMAIN e.files : e.files[j].own = "caller"
     /\ \E j \in DOMAIN e.files : e.files[j].own = "pipeline"

\* The options carry a key nobody knows or a value that is not a boolean.
InvalidOptions ==
  options["bogus"] # "absent" \/ \E k \in OptionKeySet : options[k] = "junk"

\* C9 as stated -- with invalid options the caller gets an error and no
\* source is parsed, no pass invoked and no result delivered.
InvalidOptionsRejected ==
  InvalidOptions =>
     \A r \in Runs :
        /\ \A i \in FilesOf(r) : promises[r][i].st = "pending"
        /\ log[r] = <<>>
        /\ settle[r].st # "resolved"

\* C9 as amended -- the constructor validates nothing and never raises: an
\* unknown key is kept in the options and makes no pass, and a recognized
\* key makes its pass exactly when its value is truthy and `enabled` is.
OptionsNeverValidated ==
  /\ constructed = "ok"
  /\ LET made == {singleFileOptimizations[k].key :
                    k \in DOMAIN singleFileOptimizations}
                 \cup {multiFileOptimizations[k].key :
                         k \in DOMAIN multiFileOptimizations}
     IN /\ made \subseteq EnabledKeys
        /\ Truthy(options["enabled"]) =>
             /\ instances = Cardinality(EnabledKeys)
             /\ \A k \in EnabledKeys :
                  optimizesSingleFiles(k) \/ optimizesAllFiles(k) =>
                    k \in made
        /\ ~Truthy(options["enabled"]) => instances = 0

\* An Optimizer built with an unknown key and a value that is not a boolean
\* parsed a source, invoked a pass and delivered a result.
OptionsNeverValidatedWitness ==
  /\ options["bogus"] = "true"
  /\ \E r \in Runs :
       /\ settle[r].st = "resolved"
       /\ log[r] # <<>>
       /\ Len(promises[r]) >= 1

\* The callback (r, i) is the only one in the middle of its execution.
Alone(r, i) ==
  \A r2 \in Runs : \A i2 \in {0} \cup FilesOf(r2) :
     Running(r2, i2) => r2 = r /\ i2 = i

\* While a pass has checked a rename and not yet assigned it, no other
\* callback runs and the answer of the check still holds.
CheckedRenameStillValid ==
  \A r \in Runs :
     /\ \A i \in FilesOf(r) :
          LET q == promises[r][i].req IN
          q # NoRequest =>
            /\ Alone(r, i)
            /\ q.ok = ~Conflicts(styleMapping[r], q.ident, q.repl)
     /\ LET q == cross[r].req IN
        q # NoRequest =>
          /\ Alone(r, 0)
          /\ q.ok = ~Conflicts(styleMapping[r], q.ident, q.repl)

\* C10 -- No double mapping: the check and the assignment of a rename are
\* never separated by a step of another callback, so the answer of the check
\* holds when the assignment is made; an identifier that has a replacement
\* never gets another one (a different proposal is rejected as a conflict).
NoDoubleMapping ==
  /\ []CheckedRenameStillValid
  /\ [][\A m \in DOMAIN rewrite : \A x \in Idents :
          rewrite[m][x] # "none" => rewrite'[m][x] = rewrite[m][x]]_vars

\* The passes of two files asked for different replacements of one
\* identifier: the first was assigned, the second rejected as a conflict.
NoDoubleMappingWitness ==
  \E r \in Runs :
     /\ rewrite[styleMapping[r]]["foo"] = "a"
     /\ \E p \in DOMAIN failures[r] :
          failures[r][p].kind = "conflict" /\ failures[r][p].src = 2
     /\ promises[r][1].st = "fulfilled"

\* C12 -- Phase 2 is sequential and in configured order: the cross-file
\* passes are invoked in the order of the list the constructor filled, which
\* is the order of instantiation; a pass is invoked only after the one
\* before it returned and while no other callback runs; each invocation
\* gets the files of all the sources of the run; and a run that resolved
\* invoked each of them exactly once.
CrossFileSequential ==
  /\ \A k, l \in DOMAIN multiFileOptimizations :
       k < l => multiFileOptimizations[k].id < multiFileOptimizations[l].id
  /\ \A r \in Runs :
       LET m == MultiEvents(r) IN
       /\ Len(m) <= cross[r].k + 1
       /\ Len(m) = cross[r].k + 1 =>
            cross[r].st = "failed" \/ (cross[r].req # NoRequest /\ Alone(r, 0))
       /\ \A k \in DOMAIN m :
            /\ k <= Len(multiFileOptimizations)
            /\ m[k].pass = multiFileOptimizations[k].id
            /\ Len(m[k].files) = Len(promises[r])
            /\ \A j \in FilesOf(r) : m[k].files[j] = promises[r][j].file
       /\ settle[r].st = "resolved" =>
            Len(m) = Len(multiFileOptimizations)

\* A run over two files resolved after two cross-file passes.
CrossFileSequentialWitness ==
  \E r \in Runs :
     /\ settle[r].st = "resolved"
     /\ Len(promises[r]) = 2
     /\ Len(MultiEvents(r)) = 2

\* C13 -- Single-file passes per file: on every file the single-file passes
\* are invoked in the order of the list, each after the one before it
\* returned, never before the parse of the file has completed and always
\* on the result of that parse; in a run that resolved every file had each
\* of them exactly once.
SingleFilePassesInOrder ==
  \A r \in Runs : \A i \in FilesOf(r) :
     LET on == EventsOn(r, i)
         p == promises[r][i]
     IN
     /\ p.st = "pending" => on = <<>>
     /\ Len(on) <= p.k + 1
     /\ Len(on) = p.k + 1 => p.st = "rejected" \/ p.req # NoRequest
     /\ \A k \in DOMAIN on :
          /\ k <= Len(singleFileOptimizations)
          /\ on[k].pass = singleFileOptimizations[k].id
          /\ on[k].files = << p.file >>
          /\ p.file # NoFile
     /\ settle[r].st = "resolved" =>
          Len(on) = Len(singleFileOptimizations)

\* A run over two files resolved after two single-file passes on each.
SingleFilePassesInOrderWitness ==
  \E r \in Runs :
     /\ settle[r].st = "resolved"
     /\ Len(promises[r]) = 2
     /\ \A i \in FilesOf(r) : Len(EventsOn(r, i)) = 2

KeysOf(list) == [k \in DOMAIN list |-> list[k].key]

\* The enabled keys of the registry that have a capability, in key order.
EnabledWith(capability) ==
  LET has(i) == Truthy(options[optimizations[i].key])
                /\ optimizations[i][capability]
      RECURSIVE from(_)
      from(i) == IF i > Len(optimizations) THEN <<>>
                 ELSE IF has(i) THEN << optimizations[i].key >> \o from(i + 1)
                 ELSE from(i + 1)
  IN from(1)

\* C14 -- Bucketing by capability: with `enabled` truthy the single-file
\* list holds exactly the enabled passes that have optimizeSingleFile and
\* the cross-file list exactly those that have optimizeAllFiles, each once
\* and in key order; so a pass with both is in both lists, a pass with
\* neither and a pass whose option is falsy are in none, and a pass with
\* both is the same object in both lists.
BucketedByCapability ==
  Truthy(options["enabled"]) =>
     /\ KeysOf(singleFileOptimizations) = EnabledWith("single")
     /\ KeysOf(multiFileOptimizations) = EnabledWith("multi")
     /\ \A k \in DOMAIN singleFileOptimizations :
          \A l \in DOMAIN multiFileOptimizations :
             singleFileOptimizations[k].key = multiFileOptimizations[l].key
               => singleFileOptimizations[k] = multiFileOptimizations[l]

\* An Optimizer whose options enable a pass with both capabilities and a
\* pass with none, and disable the single-file-only pass.
BucketedByCapabilityWitness ==
  /\ options["enabled"] = "true"
  /\ options["optB"] = "true" /\ options["optN"] = "true"
  /\ options["optS"] = "false"
  /\ KeysOf(singleFileOptimizations) = << "optB" >>
  /\ instances > Len(multiFileOptimizations)

\* C15 as stated -- once a run has failed no pass is invoked in it and its
\* style mapping is not modified.
NoWorkAfterFailure ==
  [][\A r \in Runs :
       failures[r] # <<>> =>
         /\ log'[r] = log[r]
         /\ rewrite'[styleMapping[r]] = rewrite[styleMapping[r]]]_vars

\* The pass invocations a step adds to the log of run r.
Invoked(r) == SubSeq(log'[r], Len(log[r]) + 1, Len(log'[r]))

\* C15 as amended -- once a run has failed it invokes no cross-file pass,
\* serializes nothing and returns no result, and no pass is invoked on a
\* file whose promise has rejected; the only passes invoked afterwards are
\* single-file passes in the callbacks of the other files, whose parses
\* complete after the failure, and only they modify the style mapping.
FailureStopsFailedFileAndPhase2 ==
  [][\A r \in Runs :
       failures[r] # <<>> =>
         /\ \A p \in DOMAIN Invoked(r) :
              /\ Invoked(r)[p].op = "single"
              /\ promises[r][Invoked(r)[p].src].st = "running"
              /\ \A q \in DOMAIN failures[r] :
                   failures[r][q].src # Invoked(r)[p].src
         /\ rewrite'[styleMapping[r]] # rewrite[styleMapping[r]] =>
              \E i \in FilesOf(r) :
                 /\ promises[r][i].st = "running"
                 /\ promises[r][i].req # NoRequest
         /\ cross'[r] = cross[r]
         /\ settle'[r].st # "resolved"
         /\ settle'[r].content = <<>>]_vars

\* The first file of a run failed to parse; the callback of the second
\* started after that, has invoked two passes and has modified the style
\* mapping.
FailureStopsFailedFileAndPhase2Witness ==
  \E r \in Runs :
     /\ Len(failures[r]) = 1
     /\ failures[r][1].kind = "parse" /\ failures[r][1].src = 1
     /\ Len(promises[r]) = 2
     /\ promises[r][2].st = "running"
     /\ Len(EventsOn(r, 2)) = 2
     /\ rewrite[styleMapping[r]] # EmptyMapping

\* What a settled run has delivered: a result only after every file went
\* through every single-file pass, every cross-file pass was invoked and
\* every file was serialized; a rejection carries an error and no result.
SettledRunIsWhole(r) ==
  /\ settle[r].st = "resolved" =>
       /\ \A i \in FilesOf(r) :
            /\ promises[r][i].st = "fulfilled"
            /\ promises[r][i].k = Len(singleFileOptimizations)
       /\ cross[r].st = "done"
       /\ cross[r].k = Len(multiFileOptimizations)
       /\ Len(settle[r].content) = Len(promises[r])
       /\ settle[r].error = NoError
       /\ failures[r] = <<>>
  /\ settle[r].st = "rejected" =>
       /\ settle[r].error # NoError
       /\ settle[r].content = <<>>
       /\ failures[r] # <<>>

\* C16 -- Every run settles exactly once: a call of optimize() leads to its
\* promise resolved or rejected; the promise never changes once settled (so
\* never both), a resolved one carries a complete result and a rejected one
\* an error and no result.
EveryRunSettlesOnce ==
  /\ \A n \in 1..MaxRuns :
       (Len(promises) >= n) ~> (Len(promises) >= n /\ settle[n].st # "pending")
  /\ [][\A r \in Runs : settle[r].st # "pending" => settle'[r] = settle[r]]_vars
  /\ [](\A r \in Runs : SettledRunIsWhole(r))

\* Of two overlapping runs over two files one resolved and the other, in
\* which a pass threw, was rejected.
EveryRunSettlesOnceWitness ==
  /\ Len(promises) = 2
  /\ Len(promises[1]) = 2
  /\ {settle[1].st, settle[2].st} = {"resolved", "rejected"}
  /\ Len(settle[1].content) + Len(settle[2].content) = 2

\* C17 -- Phase 1 interleaves only at file granularity: in the sequence of
\* the pass invocations of a run, the single-file invocations on one file
\* are adjacent, with no invocation on another file and no cross-file
\* invocation between the first and the last of them; and while the
\* callback of a file is executing no other callback is.
FileGranularity ==
  /\ \A r \in Runs : \A p, q \in DOMAIN log[r] :
       /\ p < q
       /\ log[r][p].op = "single" /\ log[r][q].op = "single"
       /\ log[r][p].src = log[r][q].src
       => \A m \in p..q :
             log[r][m].op = "single" /\ log[r][m].src = log[r][p].src
  /\ \A r \in Runs : \A i \in FilesOf(r) : Running(r, i) => Alone(r, i)

\* Two files whose parses were pending together each went through two
\* single-file passes, the second file first.
FileGranularityWitness ==
  \E r \in Runs :
     /\ Len(promises[r]) = 2
     /\ Len(EventsOn(r, 1)) = 2 /\ Len(EventsOn(r, 2)) = 2
     /\ order[r] = << 2, 1 >>

\* C18 -- The files of a run are fixed at the call: optimize() takes one
\* file per source present at the call and no step changes the number of
\* files of a run afterwards; every pass invocation of the run is on one of
\* these files, every cross-file pass gets exactly these files and the
\* output holds exactly these, however many sources were added since.
FilesFixedAtCall ==
  /\ [][/\ \A r \in Runs : Len(promises'[r]) = Len(promises[r])
        /\ Len(promises') > Len(promises) =>
             Len(promises'[Len(promises')]) = Len(sources)]_vars
  /\ [](\A r \in Runs :
          /\ Len(promises[r]) <= Len(sources)
          /\ \A e \in Events(r) :
               IF e.op = "single"
               THEN e.src \in FilesOf(r)
               ELSE /\ Len(e.files) = Len(promises[r])
                    /\ \A j \in FilesOf(r) :
                         e.files[j] = ParsedCssFileOf(r, j, sources[j])
          /\ settle[r].st = "resolved" =>
               settle[r].content =
                 [j \in FilesOf(r) |-> ParsedCssFileOf(r, j, sources[j])])

\* A second source was added while a run over one source was in flight;
\* the run has invoked its single-file and its cross-file passes on the one
\* file and is about to deliver.
FilesFixedAtCallWitness ==
  \E r \in Runs :
     /\ Len(sources) = 2 /\ Len(promises[r]) = 1
     /\ settle[r].st = "pending" /\ cross[r].st = "done"
     /\ EventsOn(r, 1) # <<>>
     /\ \E e \in Events(r) : e.op = "multi" /\ Len(e.files) = 1

====
